---- MODULE Spec2Model ----
(***************************************************************************)
(* Model of the LstCompass dashboard:                                      *)
(*   - src/pages/Protocols.tsx : the Protocols page (fetch cycle, merge,   *)
(*     loading / error / table views, sortable columns);                   *)
(*   - src/components/TokenCard.tsx : the token card (platform list sorted *)
(*     by fee, "Best Rate" badge, currency formatting).                    *)
(* JavaScript values are modelled as tagged records so that typeof,        *)
(* truthiness and property reads behave as they do at run time.            *)
(***************************************************************************)
EXTENDS Integers, Sequences, FiniteSets, TLC

VARIABLES
    \* ---- Protocols page (Protocols.tsx) ----
    protocols,      \* useState<Protocol[]>([])
    loading,        \* useState(true)
    error,          \* useState<string | null>(null)
    sortConfig,     \* useState({key: 'tvl', direction: 'desc'})
    pc,             \* position of fetchProtocolsData
    responses,      \* the two fetch() promises, in Promise.all order
    joined,         \* the Promise.all promise
    protocolsData,  \* const protocolsData (decoded body), Undefined before
    feesData,       \* const feesData (decoded body), Undefined before
    caught,         \* the value bound to err in the catch block, or Undefined
    clicks,         \* header clicks since mount (history)
    requested,      \* how often each endpoint was requested since mount (history)
    engine,         \* the host's Array.prototype.sort implementation
    \* ---- TokenCard (TokenCard.tsx) ----
    givenPlatforms, \* the platform list as the parent built it (history)
    platforms,      \* token.platforms (the prop)
    sortedPlatforms,\* const sortedPlatforms of the last render
    showPlatforms,  \* useState(false)
    cardPc,         \* "unmounted" | "rendered"
    \* ---- pure helpers applied to drawn inputs ----
    fmtValue, fmtResult,            \* formatCurrency(value) and its result
    tvlCurrent, tvlPrevious,        \* calculateTvlChange(current, previous)
    tvlChange, tvlText              \* its result and formatNumber(.., 'percentage')

pageVars == <<protocols, loading, error, sortConfig, pc, responses, joined,
              protocolsData, feesData, caught, clicks, requested>>
cardVars == <<givenPlatforms, platforms, sortedPlatforms, showPlatforms, cardPc>>
pureVars == <<fmtValue, fmtResult, tvlCurrent, tvlPrevious, tvlChange, tvlText>>
vars == <<pageVars, cardVars, pureVars, engine>>

----------------------------------------------------------------------------
(* Bounds of the model *)

\* longest protocols payload (array of the /protocols endpoint)
MaxProtocols == 3
\* longest fees payload (feesData.protocols)
MaxFees == 2
\* header clicks followed per mount
MaxClicks == 2
\* longest token.platforms list
MaxPlatforms == 3

----------------------------------------------------------------------------
(* JavaScript values *)

Undefined == [tag |-> "undefined"]
Null == [tag |-> "null"]
Num(n) == [tag |-> "number", n |-> n]
Str(s) == [tag |-> "string", s |-> s]
Obj(o) == [tag |-> "object", o |-> o]
Arr(items) == [tag |-> "array", items |-> items]
\* an Error instance (TypeError, SyntaxError, ... are Errors too)
Err(m) == [tag |-> "Error", message |-> m]

\* ToBoolean: undefined, null, 0 and '' are falsy; objects and arrays are truthy
Truthy(v) ==
    CASE v.tag = "undefined" -> FALSE
      [] v.tag = "null" -> FALSE
      [] v.tag = "number" -> v.n # 0
      [] v.tag = "string" -> v.s # ""
      [] OTHER -> TRUE

\* OrElse with the default forgotten
OrElseNoDefault(x, d) == x

\* x || d
OrElse(x, d) == IF Truthy(x) THEN x ELSE d

\* typeof v
TypeOf(v) ==
    CASE v.tag = "null" -> "object"
      [] v.tag = "array" -> "object"
      [] v.tag = "Error" -> "object"
      [] OTHER -> v.tag

\* obj[key] on an object value: a missing property reads as undefined
Get(obj, key) ==
    IF obj.tag = "object" /\ key \in DOMAIN obj.o THEN obj.o[key] ELSE Undefined

\* a > b and a < b on JavaScript values: undefined converts to NaN, and every
\* comparison with NaN is false
JsGt(a, b) == a.tag = "number" /\ b.tag = "number" /\ a.n > b.n
JsLt(a, b) == a.tag = "number" /\ b.tag = "number" /\ a.n < b.n

\* String.prototype.toLowerCase on a string held as a sequence of characters
LowerChar(c) ==
    CASE c = "L" -> "l" [] c = "I" -> "i" [] c = "D" -> "d" [] c = "O" -> "o"
      [] c = "R" -> "r" [] c = "P" -> "p" [] c = "A" -> "a" [] c = "V" -> "v"
      [] c = "E" -> "e"
      [] OTHER -> c
toLowerCase(s) == [i \in 1..Len(s) |-> LowerChar(s[i])]

\* all sequences over S of length at most n
SeqsUpTo(S, n) == UNION {[1..k -> S] : k \in 0..n}

----------------------------------------------------------------------------
(* Array.prototype.sort(comparefn) *)

\* The hosts the page runs on: "timsort" is V8 (for arrays shorter than 64
\* elements: find the leading run, reverse it if descending, then binary
\* insertion), "insertion" is a plain insertion sort from the left. Both are
\* stable sorts for a consistent comparefn; ECMAScript leaves the order
\* implementation-defined when comparefn is not consistent.
Engines == {"timsort", "insertion"}

Reverse(s) == [i \in 1..Len(s) |-> s[Len(s) + 1 - i]]
InsertAt(s, k, x) == SubSeq(s, 1, k - 1) \o <<x>> \o SubSeq(s, k, Len(s))

\* In the three operators below the array is 1..n and c[i][j] is the value
\* comparefn returns for (element i, element j); the result is the order of
\* the indices after the sort.

InsertionSort(n, c) ==
    LET RECURSIVE Back(_, _, _)
        \* position of x in the sorted prefix out, scanning from the right
        Back(out, x, j) ==
            IF j >= 1 /\ c[out[j]][x] > 0 THEN Back(out, x, j - 1) ELSE j + 1
        RECURSIVE Go(_, _)
        Go(out, i) ==
            IF i > n THEN out
            ELSE Go(InsertAt(out, Back(out, i, Len(out)), i), i + 1)
    IN  Go(<<>>, 1)

TimSort(n, c) ==
    LET descending == c[2][1] < 0
        RECURSIVE RunEnd(_)
        \* CountAndMakeRun: last index of the run that starts at 1
        RunEnd(i) ==
            IF i > n THEN n
            ELSE IF descending
                 THEN (IF c[i][i - 1] >= 0 THEN i - 1 ELSE RunEnd(i + 1))
                 ELSE (IF c[i][i - 1] < 0 THEN i - 1 ELSE RunEnd(i + 1))
        run == RunEnd(3)
        firstRun == IF descending THEN Reverse([i \in 1..run |-> i])
                                  ELSE [i \in 1..run |-> i]
        RECURSIVE Search(_, _, _, _)
        \* BinaryInsertionSort's search: left = right is where pivot goes
        Search(out, pivot, left, right) ==
            IF left >= right THEN left
            ELSE LET mid == left + ((right - left) \div 2)
                 IN  IF c[pivot][out[mid]] < 0
                     THEN Search(out, pivot, left, mid)
                     ELSE Search(out, pivot, mid + 1, right)
        RECURSIVE Go(_, _)
        Go(out, i) ==
            IF i > n THEN out
            ELSE Go(InsertAt(out, Search(out, i, 1, Len(out) + 1), i), i + 1)
    IN  IF n < 2 THEN [i \in 1..n |-> i] ELSE Go(firstRun, run + 1)

ArraySort(n, c, eng) ==
    IF eng = "timsort" THEN TimSort(n, c) ELSE InsertionSort(n, c)

----------------------------------------------------------------------------
(* The two payloads the Protocols page fetches *)

Lido == <<"L", "i", "d", "o">>
LIDO == <<"L", "I", "D", "O">>
Rocket == <<"R", "o", "c", "k", "e", "t">>
Aave == <<"A", "a", "v", "e">>

LiquidStaking == "Liquid Staking"

RawLido ==
    Obj([name |-> Str(Lido), symbol |-> Str("LDO"), slug |-> Str("lido"),
         tvl |-> Num(110), tvlPrevDay |-> Num(100), tvlPrevMonth |-> Num(90),
         mcap |-> Num(200), logo |-> Str("lido.png"),
         category |-> Str(LiquidStaking)])
\* an entry with optional fields absent or null
RawRocket ==
    Obj([name |-> Str(Rocket), slug |-> Str("rocket-pool"), tvl |-> Num(300),
         tvlPrevDay |-> Null, category |-> Str(LiquidStaking)])
RawAave ==
    Obj([name |-> Str(Aave), symbol |-> Str("AAVE"), slug |-> Str("aave"),
         tvl |-> Num(500), tvlPrevDay |-> Num(400), tvlPrevMonth |-> Num(450),
         mcap |-> Num(900), logo |-> Str("aave.png"), category |-> Str("Lending")])
RawProtocols == {RawLido, RawRocket, RawAave}

\* the fee record of Lido, under a name that differs from the protocol list's
\* in case only
FeeLido ==
    Obj([name |-> Str(LIDO), total24h |-> Num(5), total7d |-> Num(35),
         total30d |-> Num(150), monthlyAvg1y |-> Num(140),
         revenue24h |-> Num(2), revenue7d |-> Num(14), revenue30d |-> Num(60),
         revenue1y |-> Num(700), userFees24h |-> Num(3),
         cumulativeFees |-> Num(9000), holdersRevenue24h |-> Num(1),
         holdersRevenue30d |-> Num(30), treasuryRevenue24h |-> Num(6),
         supplyRevenue |-> Num(4), volume24h |-> Num(70),
         volumeChange7d |-> Num(-3), cumulativeVolume |-> Num(8000)])
\* a sparse fee record: most fields absent, one null, one zero
FeeRocket ==
    Obj([name |-> Str(Rocket), total24h |-> Num(9), total7d |-> Num(0),
         revenue24h |-> Null, volume24h |-> Num(20)])
RawFees == {FeeLido, FeeRocket}

\* bodies response.json() can resolve with: the documented shape, or another
\* JSON document (an error object)
ErrorBody == Obj([message |-> Str("rate limit exceeded")])
ProtocolBodies == {Arr(s) : s \in SeqsUpTo(RawProtocols, MaxProtocols)} \cup {ErrorBody}
FeeBodies ==
    {Obj([protocols |-> Arr(s)]) : s \in SeqsUpTo(RawFees, MaxFees)} \cup {ErrorBody}

\* values a fetch() promise can reject with: a TypeError with the host's
\* message, an Error whose message is empty, a value that is no Error
FetchRejections == {Err("Failed to fetch"), Err(""), Str("aborted")}
\* response.json() rejects with a SyntaxError
JsonRejections == {Err("Unexpected token < in JSON at position 0")}

----------------------------------------------------------------------------
(* fetchProtocolsData: the merge (Protocols.tsx 68-114) *)

FailedMessage == "Failed to fetch protocol data"
TypeErrorMessage == "Cannot read properties of undefined"

Threw(e) == [threw |-> TRUE, value |-> e]
Returned(v) == [threw |-> FALSE, value |-> v]

\* p.name.toLowerCase() throws a TypeError unless p.name is a string
HasName(p) == Get(p, "name").tag = "string"
KeyOf(p) == toLowerCase(Get(p, "name").s)

\* new Map(entries.map(p => [p.name.toLowerCase(), p])): a later entry
\* replaces an earlier one with the same key
NewFeesMap(entries) ==
    LET keys == {KeyOf(entries[i]) : i \in 1..Len(entries)}
        Last(k) == CHOOSE i \in 1..Len(entries) :
                      /\ KeyOf(entries[i]) = k
                      /\ \A j \in 1..Len(entries) : KeyOf(entries[j]) = k => j <= i
    IN  [k \in keys |-> entries[Last(k)]]

\* feesMap.get(key)
MapGet(m, k) == IF k \in DOMAIN m THEN m[k] ELSE Undefined

EmptyObject == Obj(<<>>)

\* the object literal of lines 78-113
ProtocolRecord(p, feesInfo) ==
    Obj([name |-> Get(p, "name"),
         symbol |-> OrElse(Get(p, "symbol"), Str("")),
         slug |-> Get(p, "slug"),
         tvl |-> OrElse(Get(p, "tvl"), Num(0)),
         tvlPrevDay |-> OrElse(Get(p, "tvlPrevDay"), Num(0)),
         tvlPrevMonth |-> OrElse(Get(p, "tvlPrevMonth"), Num(0)),
         mcap |-> OrElse(Get(p, "mcap"), Num(0)),
         fees |-> Obj(("24h" :> OrElse(Get(feesInfo, "total24h"), Num(0)))
                   @@ ("7d" :> OrElse(Get(feesInfo, "total7d"), Num(0)))
                   @@ ("30d" :> OrElse(Get(feesInfo, "total30d"), Num(0)))
                   @@ ("monthlyAvg1y" :> OrElse(Get(feesInfo, "monthlyAvg1y"), Num(0)))),
         revenue |-> Obj(("24h" :> OrElse(Get(feesInfo, "revenue24h"), Num(0)))
                   @@ ("7d" :> OrElse(Get(feesInfo, "revenue7d"), Num(0)))
                   @@ ("30d" :> OrElse(Get(feesInfo, "revenue30d"), Num(0)))
                   @@ ("1y" :> OrElse(Get(feesInfo, "revenue1y"), Num(0)))),
         userFees24h |-> OrElse(Get(feesInfo, "userFees24h"), Num(0)),
         cumulativeFees |-> OrElse(Get(feesInfo, "cumulativeFees"), Num(0)),
         holdersRevenue |-> Obj(("24h" :> OrElse(Get(feesInfo, "holdersRevenue24h"), Num(0)))
                   @@ ("30d" :> OrElse(Get(feesInfo, "holdersRevenue30d"), Num(0)))),
         treasuryRevenue24h |-> OrElse(Get(feesInfo, "treasuryRevenue24h"), Num(0)),
         supplyRevenue |-> OrElse(Get(feesInfo, "supplyRevenue"), Num(0)),
         volume |-> Obj(("24h" :> OrElse(Get(feesInfo, "volume24h"), Num(0)))
                   @@ ("change7d" :> OrElse(Get(feesInfo, "volumeChange7d"), Num(0)))
                   @@ ("cumulative" :> OrElse(Get(feesInfo, "cumulativeVolume"), Num(0)))),
         logo |-> OrElse(Get(p, "logo"), Str("")),
         category |-> Get(p, "category")])

\* feesMap.get(p.name.toLowerCase()) || {}
FeesInfo(feesMap, p) == OrElse(MapGet(feesMap, KeyOf(p)), EmptyObject)

\* protocolsData.filter(p => p.category === 'Liquid Staking')
IsLiquidStaking(p) == Get(p, "category") = Str(LiquidStaking)
Filter(items) ==
    LET RECURSIVE Keep(_)
        Keep(i) == IF i > Len(items) THEN <<>>
                   ELSE (IF IsLiquidStaking(items[i]) THEN <<items[i]>> ELSE <<>>)
                        \o Keep(i + 1)
    IN  Keep(1)

\* lines 68-114: what the merge returns (liquidStakingProtocols) or throws
Merge(pData, fData) ==
    LET list == Get(fData, "protocols")
    IN  IF list.tag # "array" THEN Threw(Err(TypeErrorMessage))
        ELSE IF \E i \in 1..Len(list.items) : ~HasName(list.items[i])
        THEN Threw(Err(TypeErrorMessage))
        ELSE IF pData.tag # "array" THEN Threw(Err("protocolsData.filter is not a function"))
        ELSE LET feesMap == NewFeesMap(list.items)
                 kept == Filter(pData.items)
             IN  IF \E i \in 1..Len(kept) : ~HasName(kept[i])
                 THEN Threw(Err(TypeErrorMessage))
                 ELSE Returned([i \in 1..Len(kept) |->
                                   ProtocolRecord(kept[i], FeesInfo(feesMap, kept[i]))])

----------------------------------------------------------------------------
(* Protocols page: sort configuration and the sorted rows *)

\* the keys the three sortable headers pass to sortData, as character strings
TvlKey == <<"t", "v", "l">>
FeesKey == <<"f", "e", "e", "s", ".", "2", "4", "h">>
RevenueKey == <<"r", "e", "v", "e", "n", "u", "e", ".", "2", "4", "h">>
HeaderKeys == {TvlKey, FeesKey, RevenueKey}

InitialSortConfig == [key |-> TvlKey, direction |-> "desc"]

\* the property name a character string denotes
RECURSIVE Join(_)
Join(chars) == IF chars = <<>> THEN "" ELSE Head(chars) \o Join(Tail(chars))

\* String.prototype.split('.')
RECURSIVE Split(_)
Split(chars) ==
    IF \A i \in 1..Len(chars) : chars[i] # "." THEN <<chars>>
    ELSE LET d == CHOOSE i \in 1..Len(chars) :
                      chars[i] = "." /\ \A j \in 1..(i - 1) : chars[j] # "."
         IN  <<SubSeq(chars, 1, d - 1)>> \o Split(SubSeq(chars, d + 1, Len(chars)))

\* keys.reduce((obj, key) => obj[key], a)
RECURSIVE Reduce(_, _)
Reduce(keys, obj) ==
    IF keys = <<>> THEN obj ELSE Reduce(Tail(keys), Get(obj, Join(Head(keys))))

\* sortData that flips the direction whatever header is clicked
sortDataIgnoringKey(prevConfig, key) ==
    [key |-> key,
     direction |-> IF prevConfig.direction = "desc" THEN "asc" ELSE "desc"]

\* sortData (lines 143-148): the updater given to setSortConfig
sortData(prevConfig, key) ==
    [key |-> key,
     direction |-> IF prevConfig.key = key /\ prevConfig.direction = "desc"
                   THEN "asc" ELSE "desc"]

\* the comparator of lines 151-166
Compare(a, b, config) ==
    LET a0 == Get(a, Join(config.key))
        b0 == Get(b, Join(config.key))
        nested == TypeOf(a0) = "object"
        aValue == IF nested THEN Reduce(Split(config.key), a) ELSE a0
        bValue == IF nested THEN Reduce(Split(config.key), b) ELSE b0
    IN  IF config.direction = "asc"
        THEN (IF JsGt(aValue, bValue) THEN 1 ELSE -1)
        ELSE (IF JsLt(aValue, bValue) THEN 1 ELSE -1)

\* getSortedProtocols (lines 150-168): a sorted copy of the stored rows
getSortedProtocols(rows, config, eng) ==
    LET n == Len(rows)
        c == [i \in 1..n |-> [j \in 1..n |-> Compare(rows[i], rows[j], config)]]
        order == ArraySort(n, c, eng)
    IN  [k \in 1..n |-> rows[order[k]]]

\* which of the three returns of the component renders (lines 170, 218, 226)
ViewOf(isLoading, err) ==
    IF isLoading THEN "loading" ELSE IF Truthy(err) THEN "error" ELSE "table"
View == ViewOf(loading, error)

\* the rows the table body maps over (line 282); no table, no rows
TableRows ==
    IF View = "table" THEN getSortedProtocols(protocols, sortConfig, engine) ELSE <<>>

----------------------------------------------------------------------------
(* Protocols page: the fetch cycle *)

\* the two requests, in the order Promise.all is given them (lines 56-57)
ProtocolsRequest == "https://api.llama.fi/protocols"
FeesRequest == "https://api.llama.fi/overview/fees"
Requests == {ProtocolsRequest, FeesRequest}

Idle == [state |-> "idle", ok |-> FALSE, reason |-> Undefined]
Pending == [state |-> "pending", ok |-> FALSE, reason |-> Undefined]
Fulfilled(isOk) == [state |-> "fulfilled", ok |-> isOk, reason |-> Undefined]
Rejected(e) == [state |-> "rejected", ok |-> FALSE, reason |-> e]
Settled(p) == p.state \in {"fulfilled", "rejected"}

\* the requests issued before the first await if each fetch were awaited in turn
IssuedOneAtATime == {ProtocolsRequest}

\* the requests the effect issues before its first await (lines 55-58)
IssuedOnMount == {ProtocolsRequest, FeesRequest}

\* Promise.all: rejects with the first rejection, fulfils when all have
\* fulfilled; j is the promise before request i settled into rs[i]
PromiseAll(j, rs, i) ==
    IF j.state # "pending" THEN j
    ELSE IF rs[i].state = "rejected" THEN Rejected(rs[i].reason)
    ELSE IF \A r \in Requests : rs[r].state = "fulfilled" THEN Fulfilled(TRUE)
    ELSE j

\* line 119: the message the catch block stores
CatchMessage(e) == IF e.tag = "Error" THEN e.message ELSE FailedMessage

\* a catch block without setLoading(false)
CatchKeepsLoading(e) ==
    /\ caught' = e
    /\ error' = Str(CatchMessage(e))
    /\ pc' = "done"
    /\ UNCHANGED <<protocols, loading>>

\* the catch block (lines 118-121)
Catch(e) ==
    /\ caught' = e
    /\ error' = Str(CatchMessage(e))
    /\ loading' = FALSE
    /\ pc' = "done"
    /\ UNCHANGED protocols

PageInit ==
    /\ protocols = <<>>
    /\ loading = TRUE
    /\ error = Null
    /\ sortConfig = InitialSortConfig
    /\ pc = "mount"
    /\ responses = [r \in Requests |-> Idle]
    /\ joined = Idle
    /\ protocolsData = Undefined
    /\ feesData = Undefined
    /\ caught = Undefined
    /\ clicks = <<>>
    /\ requested = [r \in Requests |-> 0]

\* useEffect(..., []) runs fetchProtocolsData up to its first await
Mount ==
    /\ pc = "mount"
    /\ responses' = [r \in Requests |-> IF r \in IssuedOnMount THEN Pending ELSE Idle]
    /\ requested' = [r \in Requests |->
                        IF r \in IssuedOnMount THEN requested[r] + 1 ELSE requested[r]]
    /\ joined' = Pending
    /\ pc' = "awaitAll"
    /\ UNCHANGED <<protocols, loading, error, sortConfig, protocolsData, feesData,
                   caught, clicks>>

\* the network settles one request: a response (ok or not) or a rejection
FetchSettles(i, outcome) ==
    /\ responses[i].state = "pending"
    /\ responses' = [responses EXCEPT ![i] = outcome]
    /\ joined' = PromiseAll(joined, responses', i)
    /\ UNCHANGED <<protocols, loading, error, sortConfig, pc, protocolsData, feesData,
                   caught, clicks, requested>>

\* ResumeAfterAll with only the first response's ok flag tested
ResumeAfterAllChecksOne ==
    /\ pc = "awaitAll"
    /\ Settled(joined)
    /\ IF joined.state = "rejected"
       THEN Catch(joined.reason)
       ELSE IF ~responses[ProtocolsRequest].ok
       THEN Catch(Err(FailedMessage))
       ELSE /\ pc' = "awaitProtocolsJson"
            /\ UNCHANGED <<protocols, loading, error, caught>>
    /\ UNCHANGED <<sortConfig, responses, joined, protocolsData, feesData, clicks, requested>>

\* fetchProtocolsData resumes after await Promise.all (lines 55-64)
ResumeAfterAll ==
    /\ pc = "awaitAll"
    /\ Settled(joined)
    /\ IF joined.state = "rejected"
       THEN Catch(joined.reason)
       ELSE IF ~responses[ProtocolsRequest].ok \/ ~responses[FeesRequest].ok
       THEN Catch(Err(FailedMessage))
       ELSE /\ pc' = "awaitProtocolsJson"
            /\ UNCHANGED <<protocols, loading, error, caught>>
    /\ UNCHANGED <<sortConfig, responses, joined, protocolsData, feesData, clicks, requested>>

\* ... after await protocolsResponse.json() (lines 64-65)
ResumeAfterProtocolsJson(outcome) ==
    /\ pc = "awaitProtocolsJson"
    /\ IF outcome.threw
       THEN Catch(outcome.value) /\ UNCHANGED protocolsData
       ELSE /\ protocolsData' = outcome.value
            /\ pc' = "awaitFeesJson"
            /\ UNCHANGED <<protocols, loading, error, caught>>
    /\ UNCHANGED <<sortConfig, responses, joined, feesData, clicks, requested>>

\* ... after await feesResponse.json(), to the end of the function (65-121)
ResumeAfterFeesJson(outcome) ==
    /\ pc = "awaitFeesJson"
    /\ IF outcome.threw
       THEN Catch(outcome.value) /\ UNCHANGED feesData
       ELSE /\ feesData' = outcome.value
            /\ LET merged == Merge(protocolsData, outcome.value)
               IN  IF merged.threw
                   THEN Catch(merged.value)
                   ELSE /\ protocols' = merged.value
                        /\ loading' = FALSE
                        /\ pc' = "done"
                        /\ UNCHANGED <<error, caught>>
    /\ UNCHANGED <<sortConfig, responses, joined, protocolsData, clicks, requested>>

\* a click that also runs the effect again, as if the effect depended on
\* sortConfig
SortDataRefetching(key) ==
    /\ View = "table"
    /\ Len(clicks) < MaxClicks
    /\ sortConfig' = sortData(sortConfig, key)
    /\ clicks' = Append(clicks, key)
    /\ responses' = [r \in Requests |-> Pending]
    /\ joined' = Pending
    /\ requested' = [r \in Requests |-> requested[r] + 1]
    /\ pc' = "awaitAll"
    /\ UNCHANGED <<protocols, loading, error, protocolsData, feesData, caught>>

\* a click on a sortable header; the headers exist in the table view only
SortData(key) ==
    /\ View = "table"
    /\ Len(clicks) < MaxClicks
    /\ sortConfig' = sortData(sortConfig, key)
    /\ clicks' = Append(clicks, key)
    /\ UNCHANGED <<protocols, loading, error, pc, responses, joined, protocolsData,
                   feesData, caught, requested>>

FetchOutcomes == {Fulfilled(TRUE), Fulfilled(FALSE)} \cup {Rejected(e) : e \in FetchRejections}
ProtocolsJsonOutcomes ==
    {Returned(b) : b \in ProtocolBodies} \cup {Threw(e) : e \in JsonRejections}
FeesJsonOutcomes ==
    {Returned(b) : b \in FeeBodies} \cup {Threw(e) : e \in JsonRejections}

----------------------------------------------------------------------------
(* Numbers that are not integers, and Number.prototype.toFixed(2) *)

\* the number num / den; den = 0 stands for the result of a division by zero
\* (Infinity or NaN)
Frac(num, den) == [tag |-> "number", num |-> num, den |-> den]

Abs(n) == IF n < 0 THEN -n ELSE n
IsNegative(v) == (v.num < 0 /\ v.den > 0) \/ (v.num > 0 /\ v.den < 0)

\* v >= t for an integer t
FracGe(v, t) == IF v.den > 0 THEN v.num >= t * v.den ELSE v.num <= t * v.den

\* the hundredths toFixed(2) rounds |num / den| to: the nearest, the larger of
\* two equally near. The two branches are the same rounding; the first keeps
\* the intermediate values small when den is a multiple of 200.
Hundredths(num, den) ==
    LET a == Abs(num)
        b == Abs(den)
    IN  IF b % 200 = 0
        THEN (a + (b \div 200)) \div (b \div 100)
        ELSE ((a \div b) * 100) + ((2 * 100 * (a % b) + b) \div (2 * b))

Pad2(n) == IF n < 10 THEN "0" \o ToString(n) ELSE ToString(n)

\* (num / den).toFixed(2)
toFixed2(v) ==
    IF v.den = 0 THEN "NaN"
    ELSE LET h == Hundredths(v.num, v.den)
         IN  (IF IsNegative(v) THEN "-" ELSE "")
             \o ToString(h \div 100) \o "." \o Pad2(h % 100)

Billion == 1000000000
Million == 1000000
Thousand == 1000

\* null and undefined have no toFixed method
IsNullish(v) == v.tag \in {"null", "undefined"}

----------------------------------------------------------------------------
(* Protocols page: formatNumber and calculateTvlChange (lines 127-141) *)

\* a stored number as a fraction
AsFrac(v) == IF v.tag = "number" /\ "n" \in DOMAIN v THEN Frac(v.n, 1) ELSE v

formatNumber(value, type) ==
    IF IsNullish(value) THEN Threw(Err(TypeErrorMessage))
    ELSE LET v == AsFrac(value)
         IN  IF type = "percentage"
             THEN Returned((IF ~IsNegative(v) /\ v.den # 0 THEN "+" ELSE "")
                           \o toFixed2(v) \o "%")
             ELSE IF FracGe(v, Billion)
             THEN Returned("$" \o toFixed2(Frac(v.num, v.den * Billion)) \o "B")
             ELSE IF FracGe(v, Million)
             THEN Returned("$" \o toFixed2(Frac(v.num, v.den * Million)) \o "M")
             ELSE IF FracGe(v, Thousand)
             THEN Returned("$" \o toFixed2(Frac(v.num, v.den * Thousand)) \o "K")
             ELSE Returned("$" \o toFixed2(v))

\* calculateTvlChange guarding against a missing previous value only
calculateTvlChangeNullOnly(current, previous) ==
    IF IsNullish(previous) THEN Num(0)
    ELSE Frac((current.n - previous.n) * 100, previous.n)

calculateTvlChange(current, previous) ==
    IF ~Truthy(previous) THEN Num(0)
    ELSE Frac((current.n - previous.n) * 100, previous.n)

----------------------------------------------------------------------------
(* TokenCard: formatCurrency (lines 20-26) *)

\* formatCurrency with strict comparisons
formatCurrencyStrict(value) ==
    IF IsNullish(value) THEN Returned("$0")
    ELSE IF value.n > Billion THEN Returned("$" \o toFixed2(Frac(value.n, Billion)) \o "B")
    ELSE IF value.n > Million THEN Returned("$" \o toFixed2(Frac(value.n, Million)) \o "M")
    ELSE IF value.n > Thousand THEN Returned("$" \o toFixed2(Frac(value.n, Thousand)) \o "K")
    ELSE Returned("$" \o toFixed2(Frac(value.n, 1)))

formatCurrency(value) ==
    IF IsNullish(value) THEN Returned("$0")
    ELSE IF value.n >= Billion THEN Returned("$" \o toFixed2(Frac(value.n, Billion)) \o "B")
    ELSE IF value.n >= Million THEN Returned("$" \o toFixed2(Frac(value.n, Million)) \o "M")
    ELSE IF value.n >= Thousand THEN Returned("$" \o toFixed2(Frac(value.n, Thousand)) \o "K")
    ELSE Returned("$" \o toFixed2(Frac(value.n, 1)))

----------------------------------------------------------------------------
(* TokenCard: the platform list (lines 10-11, 106, 113-131) *)

\* the comparator with its operands swapped
PlatformCompareSwapped(a, b) == b.fee - a.fee

\* (a, b) => a.fee - b.fee
PlatformCompare(a, b) == a.fee - b.fee

\* line 11: a sorted copy; token.platforms itself is not touched
SortPlatforms(input, eng) ==
    LET n == Len(input)
        c == [i \in 1..n |-> [j \in 1..n |-> PlatformCompare(input[i], input[j])]]
        order == ArraySort(n, c, eng)
    IN  [platforms |-> input,
         sortedPlatforms |-> [k \in 1..n |-> input[order[k]]]]

\* the positions (from 1) of the entries drawn with the "Best Rate" badge:
\* index === 0 of sortedPlatforms.map, when the panel is open
BestRate(sorted, show) ==
    IF show THEN {i \in 1..Len(sorted) : i - 1 = 0} ELSE {}

\* the entries the panel shows, in order
ShownPlatforms(sorted, show) == IF show THEN sorted ELSE <<>>

PlatformFees == {0, 1, 3, 5}
PlatformLists ==
    {[i \in 1..Len(f) |-> [name |-> "platform-" \o ToString(i), fee |-> f[i]]] :
        f \in SeqsUpTo(PlatformFees, MaxPlatforms)}

CardInit ==
    /\ givenPlatforms \in PlatformLists
    /\ platforms = givenPlatforms
    /\ sortedPlatforms = <<>>
    /\ showPlatforms = FALSE
    /\ cardPc = "unmounted"

CardIdle ==
    /\ givenPlatforms = <<>>
    /\ platforms = <<>>
    /\ sortedPlatforms = <<>>
    /\ showPlatforms = FALSE
    /\ cardPc = "absent"

\* one run of the component function
Render ==
    LET r == SortPlatforms(platforms, engine)
    IN  /\ platforms' = r.platforms
        /\ sortedPlatforms' = r.sortedPlatforms

\* the first render
CardRender ==
    /\ cardPc = "unmounted"
    /\ cardPc' = "rendered"
    /\ Render
    /\ UNCHANGED <<givenPlatforms, showPlatforms>>

\* a click on "Compare Staking Platforms" (line 106), and the render it causes
TogglePlatforms ==
    /\ cardPc = "rendered"
    /\ showPlatforms' = ~showPlatforms
    /\ Render
    /\ UNCHANGED <<givenPlatforms, cardPc>>

----------------------------------------------------------------------------
(* The pure helpers, applied to drawn arguments *)

CurrencyValues ==
    {Null, Undefined} \cup
    {Num(n) : n \in {-5, 0, 1, 999, Thousand, 1001, 999999, Million, 1500000,
                     999999999, Billion, 1234567890, 2000000000}}
TvlValues == {Num(0), Num(50), Num(90), Num(100), Num(110)}
PreviousValues == {Undefined, Null, Num(0), Num(3), Num(50), Num(100)}

PureInit ==
    /\ fmtValue \in CurrencyValues
    /\ fmtResult = Undefined
    /\ tvlCurrent \in TvlValues
    /\ tvlPrevious \in PreviousValues
    /\ tvlChange = Undefined
    /\ tvlText = Undefined

PureIdle ==
    /\ fmtValue = Undefined
    /\ fmtResult = Undefined
    /\ tvlCurrent = Undefined
    /\ tvlPrevious = Undefined
    /\ tvlChange = Undefined
    /\ tvlText = Undefined

CallFormatCurrency ==
    /\ fmtResult = Undefined
    /\ fmtResult' = formatCurrency(fmtValue)
    /\ UNCHANGED <<fmtValue, tvlCurrent, tvlPrevious, tvlChange, tvlText>>

\* lines 283 and 306: the change of a row and its text
CallCalculateTvlChange ==
    /\ tvlChange = Undefined
    /\ tvlChange' = calculateTvlChange(tvlCurrent, tvlPrevious)
    /\ tvlText' = formatNumber(tvlChange', "percentage")
    /\ UNCHANGED <<fmtValue, fmtResult, tvlCurrent, tvlPrevious>>

----------------------------------------------------------------------------
(* Specifications *)

\* the Protocols page, from construction, under any network behaviour
Init == PageInit /\ engine \in Engines /\ CardIdle /\ PureIdle
Next ==
    \/ Mount /\ UNCHANGED <<cardVars, pureVars, engine>>
    \/ \E i \in Requests, o \in FetchOutcomes :
          FetchSettles(i, o) /\ UNCHANGED <<cardVars, pureVars, engine>>
    \/ ResumeAfterAll /\ UNCHANGED <<cardVars, pureVars, engine>>
    \/ \E o \in ProtocolsJsonOutcomes :
          ResumeAfterProtocolsJson(o) /\ UNCHANGED <<cardVars, pureVars, engine>>
    \/ \E o \in FeesJsonOutcomes :
          ResumeAfterFeesJson(o) /\ UNCHANGED <<cardVars, pureVars, engine>>
    \/ \E k \in HeaderKeys : SortData(k) /\ UNCHANGED <<cardVars, pureVars, engine>>
Spec == Init /\ [][Next]_vars

\* one TokenCard, given any platform list
InitCard == CardInit /\ PageInit /\ PureIdle /\ engine \in Engines
NextCard ==
    \/ CardRender /\ UNCHANGED <<pageVars, pureVars, engine>>
    \/ TogglePlatforms /\ UNCHANGED <<pageVars, pureVars, engine>>
SpecCard == InitCard /\ [][NextCard]_vars

\* the formatting helpers on drawn arguments
InitPure == PureInit /\ PageInit /\ CardIdle /\ engine = "timsort"
NextPure ==
    \/ CallFormatCurrency /\ UNCHANGED <<pageVars, cardVars, engine>>
    \/ CallCalculateTvlChange /\ UNCHANGED <<pageVars, cardVars, engine>>
SpecPure == InitPure /\ [][NextPure]_vars

----------------------------------------------------------------------------
(* Properties *)

Range(s) == {s[i] : i \in 1..Len(s)}
Count(s, x) == Cardinality({i \in 1..Len(s) : s[i] = x})
IsPermutation(a, b) ==
    /\ Len(a) = Len(b)
    /\ \A x \in Range(a) \cup Range(b) : Count(a, x) = Count(b, x)

Succeeded == pc = "done" /\ caught = Undefined
BothResponded == \A r \in Requests : responses[r].state = "fulfilled"
SomeNotOk == \E r \in Requests : responses[r].state = "fulfilled" /\ ~responses[r].ok

\* C1: the page starts in the loading state with no error and no rows; the
\* loading flag changes only once, from true to false, in the step that ends
\* the fetch cycle (so the page is loading exactly while the cycle has not
\* ended); while loading, and ever after, no step (header clicks included)
\* changes the loading flag, the error value or the stored list, except that
\* one ending step.
C1_LoadingLeftOnce ==
    /\ (loading = TRUE /\ error = Null /\ protocols = <<>>)
    /\ []((loading = TRUE) <=> (pc # "done"))
    /\ [][/\ loading' # loading => loading /\ ~loading' /\ pc # "done" /\ pc' = "done"
          /\ loading' = loading => UNCHANGED <<error, protocols>>
          /\ ~loading => UNCHANGED <<loading, error, protocols>>]_vars

\* C1 witness: the cycle has ended, and headers were clicked after it
C1_Witness == ~loading /\ pc = "done" /\ Len(clicks) = MaxClicks /\ protocols # <<>>

\* C2: when both requests are answered and an answer is not ok, the page ends
\* in the error view with the message "Failed to fetch protocol data"; and in
\* every state in which an answer is not ok the stored list is empty, the
\* table is given no row and no body is being decoded.
C2_NotOkEndsInError ==
    SomeNotOk =>
        /\ protocols = <<>>
        /\ TableRows = <<>>
        /\ protocolsData = Undefined /\ feesData = Undefined
        /\ (BothResponded /\ pc = "done") =>
              /\ ~loading
              /\ error = Str(FailedMessage)
              /\ View = "error"

\* C2 witness: the fee overview answered not ok, the protocol list answered ok
C2_Witness ==
    /\ pc = "done"
    /\ responses[ProtocolsRequest] = Fulfilled(TRUE)
    /\ responses[FeesRequest] = Fulfilled(FALSE)
    /\ View = "error"

\* C3: whenever the fetch cycle ended in its catch block, whatever was
\* caught, the page shows the error view (and so not the table).
C3_AnyExceptionShowsError == (pc = "done" /\ caught # Undefined) => View = "error"

RECURSIVE ConfigAfter(_)
\* the configuration the rule of C4 gives after the clicks cs
ConfigAfter(cs) ==
    IF cs = <<>> THEN InitialSortConfig
    ELSE LET prev == ConfigAfter(SubSeq(cs, 1, Len(cs) - 1))
             key == cs[Len(cs)]
         IN  [key |-> key,
              direction |-> IF prev.key = key /\ prev.direction = "desc"
                            THEN "asc" ELSE "desc"]

TvlOf(row) == row.o.tvl.n
DescendingByTvl(rows) == \A i, j \in 1..Len(rows) : i < j => TvlOf(rows[i]) >= TvlOf(rows[j])

\* C4: after any clicks the configuration is the one the rule gives (key:
\* the clicked key; direction: asc exactly when the clicked key equals the
\* current key and the current direction is desc, else desc). So two clicks
\* on TVL from the initial configuration give {tvl, desc} again and the rows
\* shown are the ones shown before the clicks, descending by TVL; and a click
\* on another header than the current one gives desc on the new key.
C4_SortDataRule ==
    /\ sortConfig = ConfigAfter(clicks)
    /\ clicks = <<TvlKey, TvlKey>> =>
          /\ sortConfig = InitialSortConfig
          /\ View = "table" =>
                /\ TableRows = getSortedProtocols(protocols, InitialSortConfig, engine)
                /\ DescendingByTvl(TableRows)
    /\ \A n \in 1..Len(clicks) :
          (n = Len(clicks) /\ clicks[n] # ConfigAfter(SubSeq(clicks, 1, n - 1)).key)
              => sortConfig = [key |-> clicks[n], direction |-> "desc"]

\* C4 witness: TVL clicked twice on a table of at least two rows with
\* different TVL
C4_Witness ==
    /\ clicks = <<TvlKey, TvlKey>>
    /\ View = "table"
    /\ \E i, j \in 1..Len(protocols) : TvlOf(protocols[i]) < TvlOf(protocols[j])

FeeFieldsZero(row) ==
    /\ \A k \in {"24h", "7d", "30d", "monthlyAvg1y"} : row.o.fees.o[k] = Num(0)
    /\ \A k \in {"24h", "7d", "30d", "1y"} : row.o.revenue.o[k] = Num(0)
    /\ \A k \in {"24h", "30d"} : row.o.holdersRevenue.o[k] = Num(0)
    /\ \A k \in {"24h", "change7d", "cumulative"} : row.o.volume.o[k] = Num(0)
    /\ row.o.userFees24h = Num(0)
    /\ row.o.cumulativeFees = Num(0)
    /\ row.o.treasuryRevenue24h = Num(0)
    /\ row.o.supplyRevenue = Num(0)

\* the entries of the decoded protocols list with category "Liquid Staking"
LiquidStakingEntries ==
    LET items == protocolsData.items
    IN  SelectSeq(items, LAMBDA p : p.o.category.s = LiquidStaking)

\* no entry of the fees list has this entry's name, compared in lower case
AbsentFromFees(p) ==
    \A i \in 1..Len(feesData.o.protocols.items) :
        toLowerCase(feesData.o.protocols.items[i].o.name.s) # toLowerCase(p.o.name.s)

\* C5: after a successful cycle the stored list has one record per entry of
\* the protocols list with category "Liquid Staking", in order and under the
\* entry's name; the record of an entry whose lowercased name is absent from
\* the fees lookup has every fee, revenue, holders' revenue and volume field,
\* userFees24h, cumulativeFees, treasuryRevenue24h and supplyRevenue equal to 0.
C5_AbsentFeesGiveZeros ==
    Succeeded =>
        /\ Len(protocols) = Len(LiquidStakingEntries)
        /\ \A i \in 1..Len(LiquidStakingEntries) :
              /\ protocols[i].o.name = LiquidStakingEntries[i].o.name
              /\ AbsentFromFees(LiquidStakingEntries[i]) => FeeFieldsZero(protocols[i])

\* C5 witness: a successful cycle with one protocol absent from a non-empty
\* fees list and one protocol present in it
C5_Witness ==
    /\ Succeeded
    /\ \E i, j \in 1..Len(protocols) :
          /\ AbsentFromFees(LiquidStakingEntries[i])
          /\ ~AbsentFromFees(LiquidStakingEntries[j])
          /\ ~FeeFieldsZero(protocols[j])

\* the value the claim of C9 sorts a row by: the nested value a dotted key
\* leads to, the field itself for a flat key
ResolvedValue(row, key) ==
    IF key = FeesKey THEN row.o.fees.o["24h"].n
    ELSE IF key = RevenueKey THEN row.o.revenue.o["24h"].n
    ELSE row.o.tvl.n

\* C9: in the table view the rows shown are the stored rows, ordered by the
\* value the current sort key resolves to: larger values first when the
\* direction is desc, smaller values first when it is asc.
C9_RowsOrderedByResolvedKey ==
    View = "table" =>
        /\ IsPermutation(TableRows, protocols)
        /\ \A i, j \in 1..Len(TableRows) :
              i < j =>
                 IF sortConfig.direction = "desc"
                 THEN ResolvedValue(TableRows[i], sortConfig.key)
                         >= ResolvedValue(TableRows[j], sortConfig.key)
                 ELSE ResolvedValue(TableRows[i], sortConfig.key)
                         <= ResolvedValue(TableRows[j], sortConfig.key)

\* C10: a request is answered or fails only after both requests were issued;
\* the bodies are decoded, and the rows stored, only after both requests
\* were answered; and the stored list is never non-empty unless the cycle
\* succeeded with both bodies decoded, when it is the merge of the two.
C10_FanOutFanIn ==
    /\ (\E r \in Requests : Settled(responses[r])) =>
          \A r \in Requests : responses[r].state # "idle"
    /\ (pc \in {"awaitProtocolsJson", "awaitFeesJson"} \/ Succeeded) => BothResponded
    /\ protocolsData # Undefined =>
          BothResponded /\ pc \in {"awaitFeesJson", "done"}
    /\ feesData # Undefined => protocolsData # Undefined /\ pc = "done"
    /\ protocols # <<>> => Succeeded
    /\ Succeeded =>
          /\ protocolsData # Undefined
          /\ feesData # Undefined
          /\ protocols = Merge(protocolsData, feesData).value

\* C10 witness: a successful cycle that stored rows carrying data of both
\* responses
C10_Witness ==
    /\ Succeeded
    /\ \E i \in 1..Len(protocols) :
          protocols[i].o.tvl # Num(0) /\ protocols[i].o.fees.o["24h"] # Num(0)

----------------------------------------------------------------------------
(* Properties of the TokenCard *)

FeeOf(platform) == platform.fee
NonDecreasingFees(s) == \A i, j \in 1..Len(s) : i < j => FeeOf(s[i]) <= FeeOf(s[j])
MinFee(s) == CHOOSE f \in {FeeOf(x) : x \in Range(s)} : \A x \in Range(s) : f <= FeeOf(x)

\* what C6 and its amendment share: the sorted list is a permutation of the
\* list given, in non-decreasing fee order, and the list given is untouched
SortedCopy ==
    /\ IsPermutation(sortedPlatforms, givenPlatforms)
    /\ NonDecreasingFees(sortedPlatforms)
    /\ platforms = givenPlatforms

\* exactly one entry carries the badge: the first, whose fee is the minimum
OneBestRate ==
    /\ Cardinality(BestRate(sortedPlatforms, showPlatforms)) = 1
    /\ BestRate(sortedPlatforms, showPlatforms) = {1}
    /\ FeeOf(ShownPlatforms(sortedPlatforms, showPlatforms)[1]) = MinFee(givenPlatforms)

\* C6 as stated: for any platform list the rendered order is a permutation
\* of the input in non-decreasing fee order, the input is unchanged, and when
\* the panel is open exactly one entry is marked "Best Rate", the first one,
\* whose fee is the minimum.
C6_AnyListHasOneBestRate ==
    cardPc = "rendered" =>
        /\ SortedCopy
        /\ showPlatforms => ShownPlatforms(sortedPlatforms, showPlatforms) = sortedPlatforms
        /\ showPlatforms => OneBestRate

\* C6 amended: as C6, but exactly one entry is marked only when the list is
\* not empty; when it is empty no entry is shown and none is marked.
C6_NonEmptyListHasOneBestRate ==
    cardPc = "rendered" =>
        /\ SortedCopy
        /\ showPlatforms => ShownPlatforms(sortedPlatforms, showPlatforms) = sortedPlatforms
        /\ (showPlatforms /\ givenPlatforms # <<>>) => OneBestRate
        /\ (showPlatforms /\ givenPlatforms = <<>>) =>
              BestRate(sortedPlatforms, showPlatforms) = {}

\* C6 witness: an open panel over an unsorted list in which two platforms
\* share the minimum fee
C6_Witness ==
    /\ cardPc = "rendered"
    /\ showPlatforms
    /\ ~NonDecreasingFees(givenPlatforms)
    /\ Cardinality({i \in 1..Len(givenPlatforms) :
                       FeeOf(givenPlatforms[i]) = MinFee(givenPlatforms)}) = 2

----------------------------------------------------------------------------
(* Properties of the pure helpers *)

\* C7: calculateTvlChange returns 0 when previous is falsy (0, null or
\* undefined) and otherwise the number (current - previous) / previous * 100;
\* its result never comes from a division by zero; for 110 and 100 it is 10,
\* shown as "+10.00%".
C7_TvlChange ==
    tvlChange # Undefined =>
        /\ ~Truthy(tvlPrevious) => tvlChange = Num(0) /\ tvlText = Returned("+0.00%")
        /\ Truthy(tvlPrevious) =>
              /\ tvlChange.den # 0
              /\ tvlChange.num * tvlPrevious.n
                    = (tvlCurrent.n - tvlPrevious.n) * 100 * tvlChange.den
        /\ (tvlCurrent = Num(110) /\ tvlPrevious = Num(100)) =>
              /\ tvlChange.num = 10 * tvlChange.den
              /\ tvlText = Returned("+10.00%")
        /\ tvlText.threw = FALSE
        /\ tvlText.value # "NaN%"

\* C7 witness: the change of a row whose previous-day TVL is 0
C7_Witness ==
    /\ tvlPrevious = Num(0)
    /\ tvlCurrent = Num(110)
    /\ tvlChange = Num(0)

\* C8: formatCurrency never fails; null and undefined give "$0"; a value
\* >= 1e9 gives "$" + (value / 1e9 to two decimals) + "B", a value >= 1e6 and
\* < 1e9 the same with 1e6 and "M", a value >= 1e3 and < 1e6 the same with
\* 1e3 and "K", any other value "$" + (value to two decimals); 1e9, 1e6 and
\* 1e3 themselves give "$1.00B", "$1.00M" and "$1.00K".
C8_FormatCurrencyTiers ==
    fmtResult # Undefined =>
        /\ fmtResult.threw = FALSE
        /\ IsNullish(fmtValue) => fmtResult.value = "$0"
        /\ ~IsNullish(fmtValue) =>
              fmtResult.value =
                 CASE fmtValue.n >= Billion ->
                         "$" \o toFixed2(Frac(fmtValue.n, Billion)) \o "B"
                   [] fmtValue.n >= Million /\ fmtValue.n < Billion ->
                         "$" \o toFixed2(Frac(fmtValue.n, Million)) \o "M"
                   [] fmtValue.n >= Thousand /\ fmtValue.n < Million ->
                         "$" \o toFixed2(Frac(fmtValue.n, Thousand)) \o "K"
                   [] OTHER -> "$" \o toFixed2(Frac(fmtValue.n, 1))
        /\ fmtValue = Num(Billion) => fmtResult.value = "$1.00B"
        /\ fmtValue = Num(Million) => fmtResult.value = "$1.00M"
        /\ fmtValue = Num(Thousand) => fmtResult.value = "$1.00K"

\* C8 witness: formatCurrency applied to exactly 1e9
C8_Witness == fmtValue = Num(Billion) /\ fmtResult = Returned("$1.00B")

----------------------------------------------------------------------------
(* Frame of a header click *)

\* C11: a header click changes the sort key and direction only: the stored
\* list (contents and order), the loading flag, the error value, the
\* requests and the count of requests per endpoint are unchanged. Each
\* endpoint is requested exactly once per mount, whatever the clicks and
\* also after a failed cycle (never before the mount, once ever after), and
\* the rows shown are always a reordering of the stored list.
C11_ClickChangesSortOnly ==
    /\ [](\A r \in Requests : requested[r] = IF pc = "mount" THEN 0 ELSE 1)
    /\ [](View = "table" => IsPermutation(TableRows, protocols))
    /\ [][clicks' # clicks =>
             /\ UNCHANGED <<protocols, loading, error, requested, responses, joined, pc,
                            protocolsData, feesData, caught>>
             /\ \A r \in Requests : requested'[r] = 1]_vars

\* C11 witness: every allowed click made on a table of several rows that is
\* shown in another order than it is stored, each endpoint requested once
C11_Witness ==
    /\ Len(clicks) = MaxClicks
    /\ View = "table"
    /\ \A r \in Requests : requested[r] = 1
    /\ Len(protocols) >= 2
    /\ TableRows # protocols

====
